---- MODULE Spec2Model ----
(***************************************************************************)
(* A model of summarize-mcp (src/src/summarize_mcp/server.py): the         *)
(* preference record and its persisted file, the three tool handlers,      *)
(* audio player selection, and the speech artifacts of the temp directory. *)
(*                                                                         *)
(* Python strings are TLA+ strings.  Python's None is the value None.      *)
(* The two emoji that open every returned string are written in ASCII      *)
(* (CHECK_MARK, CROSS_MARK) because the module text is ASCII.              *)
(***************************************************************************)
EXTENDS Integers, Sequences, FiniteSets, TLC

(***************************************************************************)
(* Bounds of the model.                                                    *)
(***************************************************************************)
\* how many times the wall clock is moved (forwards or backwards)
MaxTicks == 2
\* how many synthesis requests one process issues
MaxRequests == 2
\* how many of the valid voices the tool calls name
MaxVoices == 2
\* how many synthesis requests one process issues where the tool calls are
\* explored with all their arguments
MaxCalls == 1

(***************************************************************************)
(* Program constants.                                                      *)
(***************************************************************************)
None == "<None>"

CHECK_MARK == "[ok]"
CROSS_MARK == "[x]"

\* CONFIG["cleanup_delay"], seconds
cleanup_delay == 10
\* CONFIG["default_voice"]
default_voice == "coral"
\* CONFIG["default_instructions"]
default_instructions ==
    "Keep the summary as short and concise as possible. Speak in a clear and informative tone."
\* cleanup_old_files: "Remove files older than 1 hour", seconds
retention == 3600

VALID_VOICES ==
    <<"alloy", "ash", "ballad", "coral", "echo", "fable", "nova", "onyx", "sage", "shimmer">>

\* v in VALID_VOICES (Python list membership)
InList(v, list) == \E i \in DOMAIN list : list[i] = v

\* ", ".join(list)
RECURSIVE Join(_, _)
Join(sep, list) ==
    IF Len(list) = 0 THEN ""
    ELSE IF Len(list) = 1 THEN list[1]
    ELSE list[1] \o sep \o Join(sep, Tail(list))

\* a or b, on Optional[str]: None and "" are falsy
PyOr(a, b) == IF a = None \/ a = "" THEN b ELSE a

(***************************************************************************)
(* Pydantic models.  A validation yields the list of its errors, one per   *)
(* failing field in field order, each already formatted as the handlers    *)
(* format it: "<loc>: <msg>".                                              *)
(***************************************************************************)
VoiceError == "voice: Value error, Voice must be one of: " \o Join(", ", VALID_VOICES)

MinLengthError(loc) == loc \o ": String should have at least 1 character"

\* fault variant of MinLength: the length constraint left out
MinLength_unchecked(loc, s) == <<>>

\* Field(..., min_length=1)
MinLength(loc, s) == IF Len(s) < 1 THEN <<MinLengthError(loc)>> ELSE <<>>

\* PlaySummaryArgs.validate_voice: None is accepted, any other value must be listed
PlaySummaryArgs_validate_voice(v) ==
    IF v # None /\ ~InList(v, VALID_VOICES) THEN <<VoiceError>> ELSE <<>>

\* fault variant of SetVoiceArgs.validate_voice: only the empty voice rejected
validate_voice_nonempty(v) == IF v = "" THEN <<VoiceError>> ELSE <<>>

\* SetVoiceArgs.validate_voice: the value must be listed
SetVoiceArgs_validate_voice(v) ==
    IF ~InList(v, VALID_VOICES) THEN <<VoiceError>> ELSE <<>>

PlaySummaryArgs(summary, voice, instructions) ==
    MinLength("summary", summary) \o PlaySummaryArgs_validate_voice(voice)

SetVoiceArgs(voice) == SetVoiceArgs_validate_voice(voice)

SetToneArgs(tone) == MinLength("tone", tone)

\* UserState(): both fields at their defaults
UserState == [voice |-> default_voice, tone |-> default_instructions]

(***************************************************************************)
(* The persisted state file.  Its content is what json.load makes of it:   *)
(*   kind "missing"    no file at the path                                 *)
(*   kind "unreadable" open(..., "r") raises                               *)
(*   kind "garbage"    json.load raises (empty, truncated, not JSON)       *)
(*   kind "array"      valid JSON whose top level is not an object         *)
(*   kind "object"     a JSON object, obj maps its keys to JSON values     *)
(* A JSON value is [t |-> "str", s |-> the string] or, for any value that  *)
(* is not a string (number, null, list ...), [t |-> "other", s |-> ""].    *)
(***************************************************************************)
NoKeys == [k \in {} |-> [t |-> "other", s |-> ""]]

JStr(s) == [t |-> "str", s |-> s]
JOther == [t |-> "other", s |-> ""]

File(kind, obj) == [kind |-> kind, obj |-> obj]

\* fault variant of UserState(**data): a field that is not a string takes
\* its default instead of failing the validation
UserState_fields_lenient(obj) ==
    [ok |-> TRUE,
     state |-> [voice |-> IF "voice" \in DOMAIN obj /\ obj["voice"].t = "str"
                          THEN obj["voice"].s ELSE default_voice,
                tone |-> IF "tone" \in DOMAIN obj /\ obj["tone"].t = "str"
                         THEN obj["tone"].s ELSE default_instructions]]

\* UserState(**data): a field that is absent takes its default, a field
\* that is not a string fails validation (pydantic does not coerce to str),
\* keys that are no fields are ignored.  Yields [ok, state].
UserState_fields(obj) ==
    IF \E k \in {"voice", "tone"} \cap DOMAIN obj : obj[k].t # "str"
    THEN [ok |-> FALSE, state |-> UserState]
    ELSE [ok |-> TRUE,
          state |-> [voice |-> IF "voice" \in DOMAIN obj THEN obj["voice"].s
                               ELSE default_voice,
                     tone |-> IF "tone" \in DOMAIN obj THEN obj["tone"].s
                              ELSE default_instructions]]

\* load_state, as a function of the file and of the record in memory
\* before the call: [raised, state]
load_state(file, before) ==
    IF file.kind = "missing" THEN [raised |-> FALSE, state |-> before]
    ELSE IF file.kind = "object" /\ UserState_fields(file.obj).ok
         THEN [raised |-> FALSE, state |-> UserState_fields(file.obj).state]
         \* except Exception: current_state = UserState()
         ELSE [raised |-> FALSE, state |-> UserState]

\* fault variant of model_dump: the tone is not written
model_dump_voice_only(state) == [k \in {"voice"} |-> JStr(state[k])]

\* current_state.model_dump() written by json.dump
model_dump(state) == [k \in {"voice", "tone"} |-> JStr(state[k])]

\* save_state: open(..., "w") truncates, then json.dump writes.  outcome is
\* what the file system does: "ok", "open_failed" (nothing is touched) or
\* "write_failed" (the file is left truncated).  The exception is logged and
\* swallowed in every case.
SaveOutcomes == {"ok", "open_failed", "write_failed"}

save_state(state, file, outcome) ==
    CASE outcome = "ok" -> File("object", model_dump(state))
      [] outcome = "open_failed" -> file
      [] outcome = "write_failed" -> File("garbage", NoKeys)

(***************************************************************************)
(* Audio players.  A player is [name, command]; command is the executable  *)
(* LinuxPlayer.check bound, None for the other players.                    *)
(***************************************************************************)
NoPlayer == [name |-> None, command |-> None]

AfplayPlayer == [name |-> "afplay (macOS)", command |-> None]
WindowsPlayer == [name |-> "Windows Media Player", command |-> None]
LinuxPlayer(command) == [name |-> "Linux audio player", command |-> command]
FallbackPlayer == [name |-> "Fallback (open with default app)", command |-> None]

\* LinuxPlayer.check: players, in order of preference
LinuxProbes == <<"mpg123", "play", "aplay", "ffplay", "cvlc">>

\* shutil.which over the probe list: the first one on the search path, or None
RECURSIVE FirstFound(_, _)
FirstFound(probes, on_path) ==
    IF Len(probes) = 0 THEN None
    ELSE IF Head(probes) \in on_path THEN Head(probes)
    ELSE FirstFound(Tail(probes), on_path)

\* AudioPlayer.check of each class; LinuxPlayer.check also binds command
check(cls, system, on_path) ==
    CASE cls = "AfplayPlayer" -> system = "Darwin" /\ "afplay" \in on_path
      [] cls = "WindowsPlayer" -> system = "Windows"
      [] cls = "LinuxPlayer" -> system = "Linux" /\ FirstFound(LinuxProbes, on_path) # None
      [] cls = "FallbackPlayer" -> TRUE

\* the instance after its check returned True
checked(cls, on_path) ==
    CASE cls = "AfplayPlayer" -> AfplayPlayer
      [] cls = "WindowsPlayer" -> WindowsPlayer
      [] cls = "LinuxPlayer" -> LinuxPlayer(FirstFound(LinuxProbes, on_path))
      [] cls = "FallbackPlayer" -> FallbackPlayer

\* fault variant of players: the fallback tried before the Linux players
players_fallback_early == <<"AfplayPlayer", "WindowsPlayer", "FallbackPlayer", "LinuxPlayer">>

\* get_audio_player: players = [AfplayPlayer(), WindowsPlayer(), LinuxPlayer(), FallbackPlayer()]
players == <<"AfplayPlayer", "WindowsPlayer", "LinuxPlayer", "FallbackPlayer">>

\* for player in players: if await player.check(): return player; return None
RECURSIVE first_checked(_, _, _)
first_checked(list, system, on_path) ==
    IF Len(list) = 0 THEN NoPlayer
    ELSE IF check(Head(list), system, on_path) THEN checked(Head(list), on_path)
    ELSE first_checked(Tail(list), system, on_path)

get_audio_player(system, on_path) == first_checked(players, system, on_path)

\* AudioPlayer.play up to the Popen call: LinuxPlayer.play raises when no
\* command is bound; the others always reach Popen
play_raises(player) == player.name = "Linux audio player" /\ player.command = None

(***************************************************************************)
(* The temp directory: a map from file name to [mtime, call], mtime the    *)
(* wall clock (ms) at the write and call the synthesis request that wrote  *)
(* the file.                                                               *)
(***************************************************************************)
NoFiles == [f \in {} |-> [mtime |-> 0, call |-> 0]]

Remove(dir, names) == [f \in (DOMAIN dir) \ names |-> dir[f]]

Put(dir, name, entry) == [f \in (DOMAIN dir) \cup {name} |-> IF f = name THEN entry ELSE dir[f]]

\* f"speech_{timestamp}.mp3"
SpeechFile(timestamp) == "speech_" \o ToString(timestamp) \o ".mp3"

\* fault variant of cleanup_old_files: a file aged exactly the retention is
\* unlinked too
cleanup_old_files_inclusive(dir, now, busy) ==
    Remove(dir, {f \in DOMAIN dir : now - dir[f].mtime >= retention * 1000 /\ f \notin busy})

\* cleanup_old_files: unlink every speech file (the directory holds nothing
\* else) older than the retention; busy are the files whose stat or unlink
\* raises, which are skipped
cleanup_old_files(dir, now, busy) ==
    Remove(dir, {f \in DOMAIN dir : now - dir[f].mtime > retention * 1000 /\ f \notin busy})

(***************************************************************************)
(* Strings the handlers return.                                            *)
(***************************************************************************)
\* an exception that left a handler (no handler of the program does this)
Raised == "<raised>"

StartsWith(s, prefix) == Len(s) >= Len(prefix) /\ SubSeq(s, 1, Len(prefix)) = prefix

Contains(s, part) ==
    \E i \in 1..(Len(s) - Len(part) + 1) : SubSeq(s, i, i + Len(part) - 1) = part

play_summary_ok(voice, summary) ==
    CHECK_MARK \o " Summary converted to speech and playing in the background\nVoice: "
        \o voice \o "\nLength: " \o ToString(Len(summary)) \o " characters"

set_voice_ok(voice) ==
    CHECK_MARK \o " Default voice set to: " \o voice
        \o "\n\nAll future audio summaries will use this voice unless specifically overridden."

set_tone_ok(tone) ==
    CHECK_MARK \o " Default tone set to: \"" \o tone
        \o "\"\n\nAll future audio summaries will use this tone unless specifically overridden."

\* an exception is [type, msg, code, errors]; errors is the list of a pydantic
\* ValidationError, which is the one exception with an errors attribute
ValidationError(errors) ==
    [type |-> "ValidationError", msg |-> "", code |-> "", errors |-> errors]
Exception(msg) == [type |-> "Exception", msg |-> msg, code |-> "", errors |-> <<>>]

\* fault variant of the except clause of play_summary: only validation
\* errors are turned into a string
play_summary_except_reraise(e) ==
    IF e.type = "ValidationError"
    THEN CROSS_MARK \o " Invalid arguments: " \o Join(", ", e.errors)
    ELSE Raised

\* the except clause of play_summary
play_summary_except(e) ==
    IF e.type = "ValidationError"
    THEN CROSS_MARK \o " Invalid arguments: " \o Join(", ", e.errors)
    ELSE IF e.type = "TTSError"
    THEN CROSS_MARK \o " TTS Error (" \o e.code \o "): " \o e.msg
    ELSE CROSS_MARK \o " Error playing summary: " \o e.msg

\* the except clause of set_voice
set_voice_except(e) ==
    IF e.type = "ValidationError"
    THEN CROSS_MARK \o " Invalid arguments: " \o Join(", ", e.errors)
    ELSE CROSS_MARK \o " Error setting voice: " \o e.msg

\* the except clause of set_tone
set_tone_except(e) ==
    IF e.type = "ValidationError"
    THEN CROSS_MARK \o " Invalid arguments: " \o Join(", ", e.errors)
    ELSE CROSS_MARK \o " Error setting tone: " \o e.msg

(***************************************************************************)
(* State.                                                                  *)
(*   the host:     platform_system, search_path, api_key, state_file,      *)
(*                 temp_dir, clock (time.time() in ms), ticks              *)
(*   the process:  pc, current_state, audio_player, tasks (the pending     *)
(*                 cleanup() tasks), request (the tool call the protocol   *)
(*                 layer received and has not dispatched yet), result (the *)
(*                 string the last tool call returned)                     *)
(*   what the process did, for the properties: tts (the number of          *)
(*   synthesis requests and the last one), playbacks (Popen calls),        *)
(*   written (the speech file of each request that wrote one), voice_set   *)
(*   and tone_set (the argument of the last confirmed set_voice and        *)
(*   set_tone), last_save (how the last save_state ended), swept (the      *)
(*   files the startup sweep of the process unlinked)                      *)
(***************************************************************************)
VARIABLES platform_system, search_path, api_key, state_file, temp_dir, clock, ticks,
          pc, current_state, audio_player, tasks, request, result,
          tts, playbacks, written, voice_set, tone_set, last_save, swept

host == <<platform_system, search_path, api_key>>
time == <<clock, ticks>>
prefs == <<current_state, state_file>>
artifacts == <<temp_dir, tasks, tts, playbacks, written>>
ghosts == <<voice_set, tone_set, last_save, swept>>
vars == <<host, time, pc, audio_player, request, result, prefs, artifacts, ghosts>>

NoRequest == [count |-> 0, voice |-> "", input |-> "", instructions |-> ""]

\* a tools/call message: the tool and its arguments (those of the other
\* tools are "")
NoCall == [tool |-> "none", summary |-> "", voice |-> "", instructions |-> "", tone |-> ""]

PlaySummaryCall(summary, voice, instructions) ==
    [tool |-> "play_summary", summary |-> summary, voice |-> voice,
     instructions |-> instructions, tone |-> ""]

SetVoiceCall(voice) ==
    [tool |-> "set_voice", summary |-> "", voice |-> voice, instructions |-> "", tone |-> ""]

SetToneCall(tone) ==
    [tool |-> "set_tone", summary |-> "", voice |-> "", instructions |-> "", tone |-> tone]

(***************************************************************************)
(* Inputs.                                                                 *)
(***************************************************************************)
Systems == {"Darwin", "Windows", "Linux", "FreeBSD"}
Commands == {"afplay", "mpg123", "play", "aplay", "ffplay", "cvlc"}

\* the valid voices the calls name: default_voice and the ones after it
VoiceChoices == {VALID_VOICES[i] : i \in 4..(3 + MaxVoices)}
BadVoices == {"", "bogus"}
SummaryChoices == {"", "hello"}
ToneChoices == {"", "Speak slowly and calmly"}
InstructionChoices == {None, "Be enthusiastic and energetic!"}

PlaySummaryCalls ==
    {PlaySummaryCall(s, v, i) :
        s \in SummaryChoices, v \in VoiceChoices \cup BadVoices \cup {None},
        i \in InstructionChoices}
SetVoiceCalls == {SetVoiceCall(v) : v \in VoiceChoices \cup BadVoices}
SetToneCalls == {SetToneCall(t) : t \in ToneChoices}

\* what the state file may hold when a process starts: no file, a file
\* that cannot be read or parsed, and objects with each field absent, a
\* string (valid or not as a voice, empty or not as a tone) or not a string,
\* with or without a key that is no field
StoredVoices == {"echo", "bogus"}
StoredTones == {"calm", ""}
StoredObjects ==
    { [k \in keys |-> CASE k = "voice" -> v [] k = "tone" -> t [] k = "theme" -> JStr("dark")] :
        keys \in SUBSET {"voice", "tone", "theme"},
        v \in {JStr(x) : x \in StoredVoices} \cup {JOther},
        t \in {JStr(x) : x \in StoredTones} \cup {JOther} }
StoredFiles ==
    {File(k, NoKeys) : k \in {"missing", "unreadable", "garbage", "array"}}
        \cup {File("object", o) : o \in StoredObjects}

\* the state files of the hosts on which the tool calls are explored
FewFiles ==
    { File("missing", NoKeys),
      File("object", [voice |-> JStr("bogus"), tone |-> JStr("Speak slowly and calmly")]) }

(***************************************************************************)
(* Initial states: no process runs; the host is one of systems x paths x   *)
(* keys, the state file one of files.                                      *)
(***************************************************************************)
InitOn(systems, paths, keys, files) ==
    /\ platform_system \in systems
    /\ search_path \in paths
    /\ api_key \in keys
    /\ state_file \in files
    /\ temp_dir = NoFiles
    /\ clock = 0
    /\ ticks = 0
    /\ pc = "stopped"
    /\ current_state = UserState
    /\ audio_player = NoPlayer
    /\ tasks = {}
    /\ request = NoCall
    /\ result = ""
    /\ tts = NoRequest
    /\ playbacks = 0
    /\ written = <<>>
    /\ voice_set = None
    /\ tone_set = None
    /\ last_save = "none"
    /\ swept = {}

Init == InitOn({"Linux"}, {{"ffplay", "cvlc"}}, BOOLEAN, FewFiles)

(***************************************************************************)
(* main: the module is imported (current_state = UserState()), then        *)
(* initialize_server runs.  mkdir_ok is whether ensure_temp_dir succeeds,  *)
(* busy the stale files whose unlink raises.                               *)
(***************************************************************************)
initialize_server(mkdir_ok, busy) ==
    /\ pc # "serving"
    /\ UNCHANGED <<host, state_file, time, tasks, request, result, tts, playbacks, written,
                   voice_set, tone_set, last_save>>
    /\ IF ~api_key
       THEN \* RuntimeError("OPENAI_API_KEY environment variable is required")
            /\ pc' = "failed"
            /\ UNCHANGED <<current_state, audio_player, temp_dir>>
       ELSE IF get_audio_player(platform_system, search_path) = NoPlayer
       THEN \* RuntimeError("No audio player available. ...")
            /\ pc' = "failed"
            /\ UNCHANGED <<current_state, audio_player, temp_dir>>
       ELSE IF ~mkdir_ok
       THEN \* TTSError("Failed to create temporary directory", "TEMP_DIR_ERROR")
            /\ pc' = "failed"
            /\ UNCHANGED <<current_state, audio_player, temp_dir>>
       ELSE IF load_state(state_file, UserState).raised
       THEN \* an exception of load_state would end asyncio.run(initialize_server())
            /\ pc' = "failed"
            /\ temp_dir' = cleanup_old_files(temp_dir, clock, busy)
            /\ UNCHANGED <<current_state, audio_player>>
       ELSE /\ pc' = "serving"
            /\ audio_player' = get_audio_player(platform_system, search_path)
            /\ temp_dir' = cleanup_old_files(temp_dir, clock, busy)
            /\ current_state' = load_state(state_file, UserState).state
    /\ swept' = (DOMAIN temp_dir) \ DOMAIN temp_dir'

\* the process ends: its memory, its pending tasks and an undispatched
\* call are gone
terminate ==
    /\ pc = "serving"
    /\ pc' = "stopped"
    /\ current_state' = UserState
    /\ audio_player' = NoPlayer
    /\ tasks' = {}
    /\ request' = NoCall
    /\ result' = ""
    /\ tts' = NoRequest
    /\ playbacks' = 0
    /\ written' = <<>>
    /\ voice_set' = None
    /\ tone_set' = None
    /\ last_save' = "none"
    /\ swept' = {}
    /\ UNCHANGED <<host, state_file, temp_dir, time>>

\* mcp.run(): the protocol layer receives a tools/call; the handlers run
\* one at a time, each to its return
call_tool(call) ==
    /\ pc = "serving"
    /\ request = NoCall
    /\ request' = call
    /\ UNCHANGED <<host, time, pc, audio_player, result, prefs, artifacts, ghosts>>

(***************************************************************************)
(* play_summary.  outcome is what the collaborators do in this call:       *)
(*   "provider_error"  openai_client.audio.speech.create raises            *)
(*   "stream_error"    stream_to_file raises before the file exists        *)
(*   "stream_partial"  stream_to_file raises after it created the file     *)
(*   "popen_error"     subprocess.Popen raises in audio_player.play        *)
(*   "ok"              none of them raises                                 *)
(* The handler has no suspension point before create_task, so the call is  *)
(* one step.                                                               *)
(***************************************************************************)
PlayOutcomes == {"ok", "provider_error", "stream_error", "stream_partial", "popen_error"}

OutcomeMessage(outcome) ==
    CASE outcome = "provider_error" -> "Connection error."
      [] outcome = "stream_error" -> "[Errno 2] No such file or directory"
      [] outcome = "stream_partial" -> "[Errno 28] No space left on device"
      [] outcome = "popen_error" -> "[Errno 2] No such file or directory"
      [] outcome = "ok" -> "No audio player available"

\* fault variant of effective_voice: the stored voice wins
effective_voice_stored_first(voice, state) == PyOr(state.voice, voice)

\* voice = args.voice or current_state.voice
effective_voice(voice, state) == PyOr(voice, state.voice)

\* instructions = args.instructions or current_state.tone
effective_instructions(instructions, state) == PyOr(instructions, state.tone)

\* timestamp = int(time.time() * 1000)
timestamp(now) == now

\* whether the call gets as far as a written speech file, playback, cleanup
writes_file(outcome) == outcome \in {"ok", "popen_error", "stream_partial"}
plays(outcome, player) == outcome = "ok" /\ ~play_raises(player)

play_summary(outcome) ==
    /\ pc = "serving"
    /\ request.tool = "play_summary"
    /\ request' = NoCall
    /\ UNCHANGED <<host, time, pc, audio_player, prefs, ghosts>>
    /\ LET errors == PlaySummaryArgs(request.summary, request.voice, request.instructions)
           voice == effective_voice(request.voice, current_state)
           instructions == effective_instructions(request.instructions, current_state)
           speech_file == SpeechFile(timestamp(clock))
       IN IF errors # <<>>
          THEN /\ result' = play_summary_except(ValidationError(errors))
               /\ UNCHANGED artifacts
          ELSE /\ tts.count < MaxRequests
               /\ tts' = [count |-> tts.count + 1, voice |-> voice,
                          input |-> request.summary, instructions |-> instructions]
               /\ IF writes_file(outcome)
                  THEN /\ temp_dir' = Put(temp_dir, speech_file,
                                          [mtime |-> clock, call |-> tts.count + 1])
                       /\ written' = Append(written, speech_file)
                  ELSE UNCHANGED <<temp_dir, written>>
               /\ IF plays(outcome, audio_player)
                  THEN /\ playbacks' = playbacks + 1
                       /\ tasks' = tasks \cup {[path |-> speech_file, call |-> tts.count + 1,
                                               remaining |-> cleanup_delay * 1000]}
                       /\ result' = play_summary_ok(voice, request.summary)
                  ELSE /\ UNCHANGED <<playbacks, tasks>>
                       /\ result' = play_summary_except(Exception(OutcomeMessage(outcome)))

(***************************************************************************)
(* set_voice and set_tone.  outcome is how save_state ends.                *)
(***************************************************************************)
\* fault variant of with_voice: the assignment left out
with_voice_dropped(state, voice) == state

\* current_state.voice = args.voice
with_voice(state, voice) == [state EXCEPT !.voice = voice]

\* current_state.tone = args.tone
with_tone(state, tone) == [state EXCEPT !.tone = tone]

set_voice(outcome) ==
    /\ pc = "serving"
    /\ request.tool = "set_voice"
    /\ request' = NoCall
    /\ UNCHANGED <<host, time, pc, audio_player, artifacts, tone_set, swept>>
    /\ LET errors == SetVoiceArgs(request.voice)
       IN IF errors # <<>>
          THEN /\ result' = set_voice_except(ValidationError(errors))
               /\ UNCHANGED <<prefs, voice_set, last_save>>
          ELSE /\ current_state' = with_voice(current_state, request.voice)
               /\ state_file' = save_state(current_state', state_file, outcome)
               /\ last_save' = outcome
               /\ voice_set' = request.voice
               /\ result' = set_voice_ok(request.voice)

set_tone(outcome) ==
    /\ pc = "serving"
    /\ request.tool = "set_tone"
    /\ request' = NoCall
    /\ UNCHANGED <<host, time, pc, audio_player, artifacts, voice_set, swept>>
    /\ LET errors == SetToneArgs(request.tone)
       IN IF errors # <<>>
          THEN /\ result' = set_tone_except(ValidationError(errors))
               /\ UNCHANGED <<prefs, tone_set, last_save>>
          ELSE /\ current_state' = with_tone(current_state, request.tone)
               /\ state_file' = save_state(current_state', state_file, outcome)
               /\ last_save' = outcome
               /\ tone_set' = request.tone
               /\ result' = set_tone_ok(request.tone)

(***************************************************************************)
(* The cleanup() task of one call, once its sleep is over: unlink the      *)
(* speech file; unlink_ok is whether the unlink succeeds (it raises when   *)
(* the file is gone or in use), and the exception is swallowed.            *)
(***************************************************************************)
cleanup(task, unlink_ok) ==
    /\ pc = "serving"
    /\ task \in tasks
    /\ task.remaining = 0
    /\ tasks' = tasks \ {task}
    /\ temp_dir' = IF unlink_ok /\ task.path \in DOMAIN temp_dir
                   THEN Remove(temp_dir, {task.path}) ELSE temp_dir
    /\ UNCHANGED <<host, time, pc, audio_player, request, result, prefs, tts, playbacks,
                   written, ghosts>>

(***************************************************************************)
(* Time.  Tick: d ms pass, on the wall clock and for every sleeping        *)
(* cleanup() (asyncio.sleep runs on the monotonic loop clock).             *)
(* ClockStepBack: the wall clock is set back by d ms (time.time() is not   *)
(* monotonic); no time passes for the sleeping tasks.                      *)
(***************************************************************************)
TickSteps == {1, cleanup_delay * 1000, retention * 1000}

Max(a, b) == IF a > b THEN a ELSE b

Tick(d) ==
    /\ ticks < MaxTicks
    /\ ticks' = ticks + 1
    /\ clock' = clock + d
    /\ tasks' = {[t EXCEPT !.remaining = Max(0, t.remaining - d)] : t \in tasks}
    /\ UNCHANGED <<host, pc, audio_player, request, result, prefs, temp_dir, tts, playbacks,
                   written, ghosts>>

ClockStepBack(d) ==
    /\ ticks < MaxTicks
    /\ clock >= d
    /\ ticks' = ticks + 1
    /\ clock' = clock - d
    /\ UNCHANGED <<host, pc, audio_player, request, result, prefs, artifacts, ghosts>>

\* the collaborators are consulted only by a call that passes validation
PlayOutcomesOf(call) ==
    IF PlaySummaryArgs(call.summary, call.voice, call.instructions) = <<>>
    THEN PlayOutcomes ELSE {"ok"}

SaveOutcomesOf(errors) == IF errors = <<>> THEN SaveOutcomes ELSE {"ok"}

(***************************************************************************)
(* The server and its tool calls, on a host where no time passes: the      *)
(* preference record, the state file and what the handlers return.         *)
(***************************************************************************)
Next ==
    \/ \E mkdir_ok \in BOOLEAN, busy \in SUBSET DOMAIN temp_dir :
          initialize_server(mkdir_ok, busy)
    \/ terminate
    \/ \E call \in PlaySummaryCalls \cup SetVoiceCalls \cup SetToneCalls : call_tool(call)
    \/ tts.count < MaxCalls /\ \E outcome \in PlayOutcomesOf(request) : play_summary(outcome)
    \/ \E outcome \in SaveOutcomesOf(SetVoiceArgs(request.voice)) : set_voice(outcome)
    \/ \E outcome \in SaveOutcomesOf(SetToneArgs(request.tone)) : set_tone(outcome)

Spec == Init /\ [][Next]_vars

(***************************************************************************)
(* The speech files over time: play_summary calls with the stored          *)
(* preferences, the cleanup() tasks, restarts and the clock.               *)
(***************************************************************************)
InitFiles == InitOn({"Linux"}, {{"ffplay", "cvlc"}}, {TRUE}, {File("missing", NoKeys)})

NextFiles ==
    \/ \E mkdir_ok \in BOOLEAN, busy \in SUBSET DOMAIN temp_dir :
          initialize_server(mkdir_ok, busy)
    \/ terminate
    \/ call_tool(PlaySummaryCall("hello", None, None))
    \/ \E outcome \in PlayOutcomes : play_summary(outcome)
    \/ \E task \in tasks, unlink_ok \in BOOLEAN : cleanup(task, unlink_ok)
    \/ \E d \in TickSteps : Tick(d)
    \/ \E d \in TickSteps : ClockStepBack(d)

SpecFiles == InitFiles /\ [][NextFiles]_vars

(***************************************************************************)
(* Player selection on every host: any system, any set of commands on the  *)
(* search path, which may change while the process runs.                   *)
(***************************************************************************)
install(command) ==
    /\ command \notin search_path
    /\ search_path' = search_path \cup {command}
    /\ UNCHANGED <<platform_system, api_key, time, pc, audio_player, request, result, prefs,
                   artifacts, ghosts>>

uninstall(command) ==
    /\ command \in search_path
    /\ search_path' = search_path \ {command}
    /\ UNCHANGED <<platform_system, api_key, time, pc, audio_player, request, result, prefs,
                   artifacts, ghosts>>

InitPlayers == InitOn(Systems, SUBSET Commands, {TRUE}, {File("missing", NoKeys)})

NextPlayers ==
    \/ \E mkdir_ok \in BOOLEAN, busy \in SUBSET DOMAIN temp_dir :
          initialize_server(mkdir_ok, busy)
    \/ terminate
    \/ \E command \in Commands : install(command)
    \/ \E command \in Commands : uninstall(command)

SpecPlayers == InitPlayers /\ [][NextPlayers]_vars

(***************************************************************************)
(* The preference store on every stored file: startup, set_voice,          *)
(* set_tone and restarts.                                                  *)
(***************************************************************************)
InitStore == InitOn({"Linux"}, {{"ffplay", "cvlc"}}, BOOLEAN, StoredFiles)

NextStore ==
    \/ \E mkdir_ok \in BOOLEAN, busy \in SUBSET DOMAIN temp_dir :
          initialize_server(mkdir_ok, busy)
    \/ terminate
    \/ \E call \in SetVoiceCalls \cup SetToneCalls : call_tool(call)
    \/ \E outcome \in SaveOutcomesOf(SetVoiceArgs(request.voice)) : set_voice(outcome)
    \/ \E outcome \in SaveOutcomesOf(SetToneArgs(request.tone)) : set_tone(outcome)

SpecStore == InitStore /\ [][NextStore]_vars

(***************************************************************************)
(* Properties.                                                             *)
(***************************************************************************)
TenVoices ==
    {"alloy", "ash", "ballad", "coral", "echo", "fable", "nova", "onyx", "sage", "shimmer"}

AllowedList == "alloy, ash, ballad, coral, echo, fable, nova, onyx, sage, shimmer"

\* the step in which the handler of tool answers the pending call
Answered(tool) == request.tool = tool /\ pc' = "serving" /\ request' = NoCall

\* C1: in every reachable state the voice of the preference record is one of
\* the ten fixed voices (after the startup load of any file content and
\* after any sequence of tool calls).
C1_VoiceAlwaysValid == current_state.voice \in TenVoices

\* C2: for every voice string outside the ten voices, set_voice(voice) and
\* play_summary(summary, voice) return an error string that lists the
\* allowed values, and leave the preference record, in memory and on disk,
\* as it was.
C2_InvalidVoiceRejected ==
    [][(Answered("set_voice") \/ Answered("play_summary"))
         /\ request.voice \notin TenVoices /\ request.voice # None
       => /\ StartsWith(result', CROSS_MARK)
          /\ Contains(result', AllowedList)
          /\ current_state' = current_state
          /\ state_file' = state_file]_vars

\* C2 witness: a call with an invalid voice was answered with the error
\* while the record holds the voice that a set_voice stored.
C2_Witness ==
    /\ pc = "serving"
    /\ request = NoCall
    /\ StartsWith(result, CROSS_MARK \o " Invalid arguments: voice:")
    /\ voice_set = "echo"
    /\ current_state.voice = "echo"
    /\ state_file = File("object", model_dump(current_state))

\* C3: every tool call returns a string, whatever its input and whatever the
\* provider, the file system or the player do: no exception leaves a
\* handler, and when the call failed (its arguments were invalid, or a step
\* of play_summary raised) the string begins with the failure marker.  A
\* save_state that fails inside set_voice or set_tone does not fail the call.
C3_HandlersReturnStrings ==
    [][/\ request.tool # "none" /\ pc' = "serving" /\ request' = NoCall
          => /\ result' # Raised
             /\ StartsWith(result', CHECK_MARK) \/ StartsWith(result', CROSS_MARK)
       /\ \A outcome \in PlayOutcomes :
             play_summary(outcome)
               /\ (\/ outcome # "ok"
                   \/ request.summary = ""
                   \/ (request.voice \notin TenVoices /\ request.voice # None))
             => StartsWith(result', CROSS_MARK)
       /\ Answered("set_voice") /\ request.voice \notin TenVoices
             => StartsWith(result', CROSS_MARK)
       /\ Answered("set_tone") /\ request.tone = ""
             => StartsWith(result', CROSS_MARK)]_vars

\* C3 witness: a play_summary whose file was written and whose player could
\* not be started returned the failure string.
C3_Witness ==
    /\ pc = "serving"
    /\ request = NoCall
    /\ result = CROSS_MARK \o " Error playing summary: [Errno 2] No such file or directory"
    /\ tts.count = 1
    /\ Len(written) = 1
    /\ tasks = {}

\* C4: a play_summary call with an explicit valid voice sends that voice to
\* the provider and leaves the preference record, in memory and on disk, as
\* it was; a play_summary call without a voice sends the stored voice.
C4_ExplicitVoiceOverrides ==
    [][/\ Answered("play_summary") /\ request.summary # "" /\ request.voice \in TenVoices
          => /\ tts'.count = tts.count + 1
             /\ tts'.voice = request.voice
             /\ current_state' = current_state
             /\ state_file' = state_file
       /\ Answered("play_summary") /\ request.summary # "" /\ request.voice = None
          => /\ tts'.count = tts.count + 1
             /\ tts'.voice = current_state.voice]_vars

\* C4 witness: the provider was asked for a voice that is not the stored one.
C4_Witness ==
    /\ pc = "serving"
    /\ request = NoCall
    /\ tts.count = 1
    /\ tts.voice = "echo"
    /\ current_state.voice = "coral"
    /\ StartsWith(result, CHECK_MARK \o " Summary converted")

\* C5: once set_voice(v) has returned its confirmation, a play_summary call
\* of the same process with a non-empty summary and no voice (and no other
\* set_voice in between) asks the provider for voice v, and reports v when
\* it succeeds.
C5_StoredVoiceUsed ==
    [][Answered("play_summary") /\ request.summary # "" /\ request.voice = None
         /\ voice_set # None
       => /\ tts'.count = tts.count + 1
          /\ tts'.voice = voice_set
          /\ StartsWith(result', CHECK_MARK)
             => Contains(result', "\nVoice: " \o voice_set \o "\n")]_vars

\* C5 witness: after set_voice("echo"), a call without a voice succeeded.
C5_Witness ==
    /\ voice_set = "echo"
    /\ tts.voice = "echo"
    /\ request = NoCall
    /\ result = CHECK_MARK
         \o " Summary converted to speech and playing in the background\nVoice: echo\nLength: 5 characters"

\* what a fresh process loads from the state file as it is now
FreshLoad == load_state(state_file, UserState).state

Unloadable(file) ==
    \/ file.kind \in {"missing", "unreadable", "garbage", "array"}
    \/ /\ file.kind = "object"
       /\ \E k \in {"voice", "tone"} \cap DOMAIN file.obj : file.obj[k].t # "str"

C8_EmptySummaryRejected ==
    [][Answered("play_summary") /\ request.summary = ""
       => /\ StartsWith(result', CROSS_MARK \o " Invalid arguments: summary: ")
          /\ tts' = tts
          /\ temp_dir' = temp_dir
          /\ playbacks' = playbacks
          /\ tasks' = tasks
          /\ written' = written]_vars

\* C8 witness: a call with an empty summary was answered with the validation
\* error and the provider has not been asked for anything.
C8_Witness ==
    /\ pc = "serving"
    /\ request = NoCall
    /\ result = CROSS_MARK
         \o " Invalid arguments: summary: String should have at least 1 character"
    /\ tts.count = 0

\* C9: the play_summary calls of one process that wrote a speech file wrote
\* pairwise distinct paths.
C9_DistinctPaths ==
    \A i, j \in DOMAIN written : i # j => written[i] # written[j]

\* the player the selection order of the claim yields
FirstProbe(on_path) ==
    CHOOSE p \in {"mpg123", "play", "aplay", "ffplay", "cvlc"} \cap on_path :
        \/ p = "mpg123"
        \/ p = "play" /\ "mpg123" \notin on_path
        \/ p = "aplay" /\ {"mpg123", "play"} \cap on_path = {}
        \/ p = "ffplay" /\ {"mpg123", "play", "aplay"} \cap on_path = {}
        \/ p = "cvlc" /\ {"mpg123", "play", "aplay", "ffplay"} \cap on_path = {}

ExpectedPlayer(system, on_path) ==
    IF system = "Darwin" /\ "afplay" \in on_path
    THEN [name |-> "afplay (macOS)", command |-> None]
    ELSE IF system = "Windows"
    THEN [name |-> "Windows Media Player", command |-> None]
    ELSE IF system = "Linux" /\ {"mpg123", "play", "aplay", "ffplay", "cvlc"} \cap on_path # {}
    THEN [name |-> "Linux audio player", command |-> FirstProbe(on_path)]
    ELSE [name |-> "Fallback (open with default app)", command |-> None]

\* C10: the selection tries afplay, Windows, Linux (mpg123, play, aplay,
\* ffplay, cvlc, binding the first found) and the fallback in this order
\* and takes the first that is available; it finds a player on every host,
\* so no startup fails for lack of one; and the player of a process is
\* never replaced.
C10_PlayerSelection ==
    [][/\ get_audio_player(platform_system, search_path) # NoPlayer
       /\ \A busy \in SUBSET DOMAIN temp_dir :
             api_key /\ initialize_server(TRUE, busy)
             => /\ pc' = "serving"
                /\ audio_player' = ExpectedPlayer(platform_system, search_path)
       /\ pc = "serving" /\ pc' = "serving" => audio_player' = audio_player]_vars

\* C10 witness: a Linux process bound aplay, and keeps it after mpg123 was
\* installed.
C10_Witness ==
    /\ pc = "serving"
    /\ platform_system = "Linux"
    /\ audio_player = [name |-> "Linux audio player", command |-> "aplay"]
    /\ "mpg123" \in search_path

\* C11: the sweep of a startup that gets to it (API key set, player found,
\* directory created) unlinks every speech file older than one hour at that
\* moment whose unlink does not fail, keeps every speech file aged one hour
\* or less as it was, keeps the files whose unlink fails, creates nothing,
\* and the startup reaches serving whatever fails to be unlinked.
C11_StartupSweep ==
    [][pc # "serving" /\ ticks' = ticks
       => \A busy \in SUBSET DOMAIN temp_dir :
          api_key /\ initialize_server(TRUE, busy)
          => /\ pc' = "serving"
             /\ DOMAIN temp_dir' \subseteq DOMAIN temp_dir
             /\ \A f \in DOMAIN temp_dir :
                   /\ clock - temp_dir[f].mtime > 3600000 /\ f \notin busy
                        => f \notin DOMAIN temp_dir'
                   /\ clock - temp_dir[f].mtime <= 3600000 \/ f \in busy
                        => f \in DOMAIN temp_dir' /\ temp_dir'[f] = temp_dir[f]]_vars

\* C11 witness: a startup swept the file written one hour and 1 ms earlier
\* and kept the file written exactly one hour earlier.
C11_Witness ==
    /\ pc = "serving"
    /\ swept = {"speech_0.mp3"}
    /\ clock = 3600001
    /\ DOMAIN temp_dir = {"speech_1.mp3"}
    /\ temp_dir["speech_1.mp3"].mtime = 1

\* C12: a play_summary call that wrote a speech file has scheduled, by its
\* return, a cleanup task for the path it wrote, whether it returns the
\* success or the failure string, and a call that wrote a speech file
\* returned success.
C12_WrittenFileHasCleanup ==
    [][Answered("play_summary") /\ Len(written') > Len(written)
       => /\ \E task \in tasks' \ tasks :
                /\ task.path = written'[Len(written')]
                /\ task.call = tts'.count
          /\ StartsWith(result', CHECK_MARK)]_vars

====
